---- MODULE Spec2Model ----
(***************************************************************************)
(* Model of coalib/core/Core.py: the bear scheduler (run, schedule_bears,  *)
(* finish_task, cleanup_bear) on an asyncio event loop with an executor,   *)
(* and the pure function group().                                          *)
(***************************************************************************)
EXTENDS Integers, Sequences, FiniteSets, TLC

(* ---- bounds of the model ---- *)
MaxBears == 2      \* length of the list passed to run()
MaxHandles == 2    \* tasks submitted in one run, over all bears
MaxResults == 2    \* results one task returns
MaxLen == 5        \* length of the iterable passed to group()
MaxElem == 3       \* elements of that iterable are 1..MaxElem
MaxCpus == 64      \* cores the platform may report

VARIABLES
    bears,            \* run(bears, ...): the list of bear objects, by identity
    generate_tasks,   \* bear -> number of tasks bear.generate_tasks() yields
    pc,               \* where run() is: "schedule", "select", "dispatch",
                      \* "returned", "raised"
    next_bear,        \* index into bears of the for loop of schedule_bears
    running_tasks,    \* dict bear -> set of task handles
    futures,          \* submitted handle -> state of its execution
    ready,            \* event_loop._ready: FIFO of scheduled callbacks
    ntodo,            \* callbacks left to run in the current loop iteration
    stopping,         \* event_loop.stop() was called and not yet honoured
    loop_closed,      \* event_loop.close() was called
    executor_shutdowns, \* number of times the executor was shut down
    posting,          \* handles whose done callback, on the executor's
                      \* thread, is inside call_soon_threadsafe
    fired,            \* handle -> number of finish_task invocations
    delivered,        \* handle -> results result_callback was invoked with
    last_trace,       \* steps of the most recent finish_task invocation
    g_iterable, g_key, g_pos, g_keys, g_elements, g_out, g_pc,  \* group()
    c_platform,       \* what multiprocessing.cpu_count() does on the platform
    c_result,         \* what get_cpu_count() did
    c_pc              \* get_cpu_count(): "call", "done"

sched_vars == <<bears, generate_tasks, pc,
                next_bear, running_tasks, futures, ready, ntodo, stopping,
                loop_closed, executor_shutdowns, posting, fired, delivered,
                last_trace>>
group_vars == <<g_iterable, g_key, g_pos, g_keys, g_elements, g_out, g_pc>>
cpu_vars == <<c_platform, c_result, c_pc>>
vars == <<sched_vars, group_vars, cpu_vars>>

(* ---- helpers ---- *)
SeqsUpTo(S, n) == UNION {[1..m -> S] : m \in 0..n}

Range(s) == {s[j] : j \in 1..Len(s)}

\* Bears are opaque objects compared by identity: a list is taken up to the
\* renaming of its bears, so the first bear is 1 and each new one is the next.
BearIds == 1..MaxBears

FirstOccurrenceOrder(bs) ==
    \A j \in 1..Len(bs) :
        bs[j] <= 1 + Cardinality({bs[m] : m \in 1..(j - 1)})

TotalTasks(bs, gen) ==
    LET RECURSIVE Sum(_)
        Sum(j) == IF j = 0 THEN 0 ELSE gen[bs[j]] + Sum(j - 1)
    IN Sum(Len(bs))

\* The handle of the t-th task of the bear at position p of the input list.
Handle(p, t) == <<p, t>>

BearOf(h) == bears[h[1]]

\* What a task or result_callback raises, by who catches it: "Exception" is
\* caught by the except clauses of finish_task; "BaseException" (any other
\* class) leaves finish_task and is logged by the loop, which goes on;
\* "SystemExit" (SystemExit, KeyboardInterrupt) leaves the loop and run().
ExceptionClasses == {"Exception", "BaseException", "SystemExit"}

\* What a task raises: as above, and "StopIteration", an Exception that the
\* loop's future refuses to take (Future.set_exception raises TypeError).
TaskExceptionClasses == ExceptionClasses \cup {"StopIteration"}

\* A task handle: not finished, or finished with an exception, or finished
\* with the list of results r1..rn (n = 0: the empty list).
Pending == [done |-> FALSE, exc |-> FALSE, cls |-> "None", n |-> 0]
FailedWith(cls) == [done |-> TRUE, exc |-> TRUE, cls |-> cls, n |-> 0]
Failed == FailedWith("Exception")
Returned(n) == [done |-> TRUE, exc |-> FALSE, cls |-> "None", n |-> n]
Outcomes ==
    {FailedWith(cls) : cls \in TaskExceptionClasses}
        \cup {Returned(n) : n \in 0..MaxResults}

\* What result_callback does on each of n results: return, or raise.
CallbackOutcomes(n) == [1..n -> {"None"} \cup ExceptionClasses]

\* result_callback returns on every result
NeverRaises(n) == [j \in 1..n |-> "None"]

(* ---- cleanup_bear ---- *)
\* dict without the key bear
DelKey(rt, bear) == [b \in DOMAIN rt \ {bear} |-> rt[b]]

\* dict with rt[bear] = tasks, added or overwritten
SetKey(rt, bear, tasks) ==
    [b \in DOMAIN rt \cup {bear} |-> IF b = bear THEN tasks ELSE rt[b]]

cleanup_bear(bear, rt) ==
    LET rt1 == IF rt[bear] = {} THEN DelKey(rt, bear) ELSE rt
        stop == DOMAIN rt1 = {}
    IN [running_tasks |-> rt1,
        stop |-> stop,
        trace |-> <<<<"cleanup_bear", 0>>>>
                  \o (IF rt[bear] = {} THEN <<<<"del", 0>>>> ELSE <<>>)
                  \o (IF stop THEN <<<<"stop", 0>>>> ELSE <<>>)]

(* ---- finish_task ---- *)
\* The for loop over results: result_callback is invoked with each result in
\* turn; an Exception it raises is logged and the loop goes on, any other
\* exception ends the loop (and leaves finish_task).
RECURSIVE forward_results(_, _, _)
forward_results(n, j, raises) ==
    IF j > n THEN <<>>
    ELSE <<<<"result_callback", j>>>>
         \o (CASE raises[j] = "None" -> forward_results(n, j + 1, raises)
               [] raises[j] = "Exception" ->
                      <<<<"callback_error", j>>>>
                          \o forward_results(n, j + 1, raises)
               [] OTHER -> <<>>)

\* the exception that leaves the for loop over results, "None" if none does
forward_results_raises(n, raises) ==
    LET escaping == {j \in 1..n : raises[j] \notin {"None", "Exception"}}
    IN IF escaping = {} THEN "None"
       ELSE raises[CHOOSE j \in escaping : \A m \in escaping : j <= m]

\* What one invocation of finish_task does to the registry and the loop, and
\* the calls it makes, in order. raised, exception: the exception that leaves
\* it, which is the KeyError of line 182, or what task.result() or
\* result_callback raised that is no Exception.
finish_task(bear, task, outcome, rt, raises) ==
    LET caught == outcome.exc /\ outcome.cls \in {"Exception", "StopIteration"}
        first == IF caught THEN <<<<"task_error", 0>>>> ELSE <<>>
    IN IF bear \notin DOMAIN rt \/ task \notin rt[bear]
       THEN [raised |-> TRUE, exception |-> "KeyError",
             running_tasks |-> rt, stop |-> FALSE,
             trace |-> first \o <<<<"KeyError", 0>>>>]
       ELSE LET removed == [rt EXCEPT ![bear] = @ \ {task}]
                c == cleanup_bear(bear, removed)
                exception ==
                    IF outcome.exc
                    THEN (IF caught THEN "None" ELSE outcome.cls)
                    ELSE forward_results_raises(outcome.n, raises)
            IN [raised |-> exception # "None", exception |-> exception,
                running_tasks |-> c.running_tasks,
                stop |-> c.stop,
                trace |-> first \o <<<<"remove", 0>>>> \o c.trace
                          \o (IF outcome.exc THEN <<>>
                              ELSE forward_results(outcome.n, 1, raises))
                          \o (IF exception # "None"
                              THEN <<<<exception, 0>>>> ELSE <<>>)]

\* the results result_callback was invoked with, in the order of the calls
CallbackCalls(trace) ==
    LET calls == SelectSeq(trace, LAMBDA e : e[1] = "result_callback")
    IN [j \in 1..Len(calls) |-> calls[j][2]]

(* ---- the run ---- *)
InitSched ==
    /\ bears \in SeqsUpTo(BearIds, MaxBears)
    /\ FirstOccurrenceOrder(bears)
    /\ generate_tasks \in [BearIds -> 0..MaxHandles]
    /\ \A b \in BearIds \ Range(bears) : generate_tasks[b] = 0
    /\ TotalTasks(bears, generate_tasks) <= MaxHandles
    /\ pc = "schedule"
    /\ next_bear = 1
    /\ running_tasks = <<>>
    /\ futures = <<>>
    /\ ready = <<>>
    /\ ntodo = 0
    /\ stopping = FALSE
    /\ loop_closed = FALSE
    /\ executor_shutdowns = 0
    /\ posting = {}
    /\ fired = <<>>
    /\ delivered = <<>>
    /\ last_trace = <<>>

\* One iteration of the for loop of schedule_bears: submit the bear's tasks,
\* record them, attach finish_task to each, clean up a bear without tasks.
ScheduleBear ==
    /\ pc = "schedule"
    /\ next_bear <= Len(bears)
    /\ LET bear == bears[next_bear]
           tasks == {Handle(next_bear, t) : t \in 1..generate_tasks[bear]}
           rt == SetKey(running_tasks, bear, tasks)
           c == cleanup_bear(bear, rt)
       IN /\ futures' = futures @@ [h \in tasks |-> Pending]
          /\ fired' = fired @@ [h \in tasks |-> 0]
          /\ delivered' = delivered @@ [h \in tasks |-> <<>>]
          /\ running_tasks' = IF tasks = {} THEN c.running_tasks ELSE rt
          /\ stopping' = (stopping \/ (tasks = {} /\ c.stop))
    /\ next_bear' = next_bear + 1
    /\ UNCHANGED <<bears, generate_tasks, pc, ready, ntodo,
                   loop_closed, executor_shutdowns, posting, last_trace, group_vars, cpu_vars>>

\* The executor refuses the j-th submission of the bear: the exception leaves
\* schedule_bears and run(), which calls schedule_bears outside its try.
SubmitRaises ==
    /\ pc = "schedule"
    /\ next_bear <= Len(bears)
    /\ \E j \in 1..generate_tasks[bears[next_bear]] :
         LET tasks == {Handle(next_bear, t) : t \in 1..(j - 1)}
         IN /\ futures' = futures @@ [h \in tasks |-> Pending]
            /\ fired' = fired @@ [h \in tasks |-> 0]
            /\ delivered' = delivered @@ [h \in tasks |-> <<>>]
    /\ pc' = "raised"
    /\ UNCHANGED <<bears, generate_tasks, next_bear,
                   running_tasks, ready, ntodo, stopping, loop_closed,
                   executor_shutdowns, posting, last_trace, group_vars, cpu_vars>>

\* schedule_bears returns and run() enters event_loop.run_forever().
RunForever ==
    /\ pc = "schedule"
    /\ next_bear > Len(bears)
    /\ pc' = "select"
    /\ UNCHANGED <<bears, generate_tasks, next_bear,
                   running_tasks, futures, ready, ntodo, stopping, loop_closed,
                   executor_shutdowns, posting, fired, delivered, last_trace,
                   group_vars, cpu_vars>>

\* The worker's thread runs finish_task itself when the task is finished, as a
\* done callback of the executor's future would run.
WorkerCompletes_runs_finish_task ==
    /\ \E h \in DOMAIN futures, o \in Outcomes :
         /\ ~futures[h].done
         /\ h[1] < next_bear
         /\ futures' = [futures EXCEPT ![h] = o]
         /\ LET f == finish_task(BearOf(h), h, o, running_tasks,
                                 NeverRaises(o.n))
            IN /\ running_tasks' = f.running_tasks
               /\ stopping' = (stopping \/ f.stop)
               /\ fired' = [fired EXCEPT ![h] = @ + 1]
               /\ delivered' = [delivered EXCEPT
                                   ![h] = @ \o CallbackCalls(f.trace)]
               /\ last_trace' = f.trace
    /\ UNCHANGED <<bears, generate_tasks, pc, next_bear, ready, ntodo,
                   loop_closed, executor_shutdowns, posting, group_vars, cpu_vars>>

\* A worker finishes bear.execute_task: the executor's future is done and
\* its done callback runs on the executor's thread, one completion at a time.
\* It does nothing when the loop is closed; otherwise it enters
\* call_soon_threadsafe and passes its check that the loop is open.
WorkerCompletes ==
    /\ posting = {}
    /\ \E h \in DOMAIN futures, o \in Outcomes :
         /\ ~futures[h].done
         /\ futures' = [futures EXCEPT ![h] = o]
         /\ posting' = IF loop_closed THEN {} ELSE {h}
    /\ UNCHANGED <<bears, generate_tasks, pc, next_bear,
                   running_tasks, ready, ntodo, stopping, loop_closed,
                   executor_shutdowns, fired, delivered, last_trace,
                   group_vars, cpu_vars>>

\* call_soon_threadsafe appends the callback that hands the state of the
\* executor's future to the loop's future; it takes no lock that close()
\* takes, so the loop may have been closed since the check.
WorkerPosts ==
    /\ \E h \in posting :
         /\ ready' = Append(ready, <<"set_state", h>>)
         /\ posting' = {}
    /\ UNCHANGED <<bears, generate_tasks, pc, next_bear,
                   running_tasks, futures, ntodo, stopping, loop_closed,
                   executor_shutdowns, fired, delivered, last_trace,
                   group_vars, cpu_vars>>

\* One iteration of the loop begins: it waits until a callback is ready unless
\* stop() was called, and runs the callbacks that are ready at that moment.
SelectReady ==
    /\ pc = "select"
    /\ ready # <<>> \/ stopping
    /\ ntodo' = Len(ready)
    /\ pc' = "dispatch"
    /\ UNCHANGED <<bears, generate_tasks, next_bear,
                   running_tasks, futures, ready, stopping, loop_closed,
                   executor_shutdowns, posting, fired, delivered, last_trace,
                   group_vars, cpu_vars>>

\* The loop's future of a task takes the state of the executor's future and
\* schedules its done callback, finish_task, with call_soon. It refuses a
\* StopIteration: set_exception raises TypeError, which the loop logs, the
\* future stays pending and finish_task is not scheduled.
SetState ==
    /\ pc = "dispatch"
    /\ ntodo > 0
    /\ Head(ready)[1] = "set_state"
    /\ LET h == Head(ready)[2]
       IN ready' = IF futures[h].cls = "StopIteration"
                   THEN Tail(ready)
                   ELSE Append(Tail(ready), <<"finish_task", h>>)
    /\ ntodo' = ntodo - 1
    /\ UNCHANGED <<bears, generate_tasks, pc, next_bear,
                   running_tasks, futures, stopping, loop_closed,
                   executor_shutdowns, posting, fired, delivered, last_trace,
                   group_vars, cpu_vars>>

\* The loop runs finish_task for a finished task; result_callback raises on
\* any of the results it is called with. A SystemExit or KeyboardInterrupt
\* that leaves finish_task leaves run_forever too: run() closes the loop in
\* its finally clause and raises. The loop logs any other exception.
FinishTask ==
    /\ pc = "dispatch"
    /\ ntodo > 0
    /\ Head(ready)[1] = "finish_task"
    /\ \E raises \in CallbackOutcomes(futures[Head(ready)[2]].n) :
       LET h == Head(ready)[2]
           f == finish_task(BearOf(h), h, futures[h], running_tasks, raises)
       IN /\ running_tasks' = f.running_tasks
          /\ fired' = [fired EXCEPT ![h] = @ + 1]
          /\ delivered' = [delivered EXCEPT ![h] = @ \o CallbackCalls(f.trace)]
          /\ last_trace' = f.trace
          /\ IF f.exception = "SystemExit"
             THEN /\ pc' = "raised"
                  /\ stopping' = FALSE
                  /\ loop_closed' = TRUE
                  /\ ready' = <<>>
                  /\ ntodo' = 0
             ELSE /\ stopping' = (stopping \/ f.stop)
                  /\ ready' = Tail(ready)
                  /\ ntodo' = ntodo - 1
                  /\ UNCHANGED <<pc, loop_closed>>
    /\ UNCHANGED <<bears, generate_tasks, next_bear,
                   futures, executor_shutdowns, posting, group_vars, cpu_vars>>

\* The iteration is over: run_forever goes on unless stop() was called; then
\* it returns, run() closes the loop in its finally clause, which drops the
\* callbacks still queued, and returns.
IterationEnds ==
    /\ pc = "dispatch"
    /\ ntodo = 0
    /\ IF stopping
       THEN /\ pc' = "returned"
            /\ stopping' = FALSE
            /\ loop_closed' = TRUE
            /\ ready' = <<>>
       ELSE /\ pc' = "select"
            /\ UNCHANGED <<stopping, loop_closed, ready>>
    /\ UNCHANGED <<bears, generate_tasks, next_bear,
                   running_tasks, futures, ntodo, executor_shutdowns, posting,
                   fired, delivered, last_trace, group_vars, cpu_vars>>

ControlThread ==
    \/ ScheduleBear
    \/ SubmitRaises
    \/ RunForever
    \/ SelectReady
    \/ SetState
    \/ FinishTask
    \/ IterationEnds

(* ---- group ---- *)
\* the key parameter: a function of one element (the default is the identity)
KeyFunctions == {"identity", "parity", "half", "constant"}

key(kf, x) ==
    CASE kf = "identity" -> x
      [] kf = "parity" -> x % 2
      [] kf = "half" -> x \div 2
      [] kf = "constant" -> 0

\* the scan looks at the key discovered last only
index_last_only(keys, k) ==
    IF keys # <<>> /\ keys[Len(keys)] = k THEN Len(keys) ELSE 0

\* keys.index(k): the first position whose key equals k; 0 for ValueError
index(keys, k) ==
    IF \E p \in 1..Len(keys) : keys[p] = k
    THEN CHOOSE p \in 1..Len(keys) :
             /\ keys[p] = k
             /\ \A q \in 1..(p - 1) : keys[q] # k
    ELSE 0

\* the body of the loop with the element put at the front of its group
group_step_prepends(keys, elements, element, k) ==
    LET position == index(keys, k)
    IN IF position = 0
       THEN [keys |-> Append(keys, k),
             elements |-> Append(elements, <<element>>)]
       ELSE [keys |-> keys,
             elements |-> [elements EXCEPT ![position] = <<element>> \o @]]

\* the body of the for loop of group, for one element
group_step(keys, elements, element, k) ==
    LET position == index(keys, k)
    IN IF position = 0
       THEN [keys |-> Append(keys, k),
             elements |-> Append(elements, <<element>>)]
       ELSE [keys |-> keys,
             elements |-> [elements EXCEPT ![position] = Append(@, element)]]

\* zip(keys, elements)
zip(keys, elements) ==
    LET n == IF Len(keys) <= Len(elements) THEN Len(keys) ELSE Len(elements)
    IN [j \in 1..n |-> <<keys[j], elements[j]>>]

\* group(iterable, key): the loop over the whole iterable, then the zip
group(iterable, kf) ==
    LET RECURSIVE Loop(_)
        Loop(j) ==
            IF j = 0 THEN [keys |-> <<>>, elements |-> <<>>]
            ELSE LET g == Loop(j - 1)
                 IN group_step(g.keys, g.elements, iterable[j],
                               key(kf, iterable[j]))
    IN zip(Loop(Len(iterable)).keys, Loop(Len(iterable)).elements)

InitGroupIdle ==
    /\ g_iterable = <<>>
    /\ g_key = "identity"
    /\ g_pos = 1
    /\ g_keys = <<>>
    /\ g_elements = <<>>
    /\ g_out = <<>>
    /\ g_pc = "idle"

InitGroup ==
    /\ g_iterable \in SeqsUpTo(1..MaxElem, MaxLen)
    /\ g_key \in KeyFunctions
    /\ g_pos = 1
    /\ g_keys = <<>>
    /\ g_elements = <<>>
    /\ g_out = <<>>
    /\ g_pc = "loop"

InitSchedIdle ==
    /\ bears = <<>>
    /\ generate_tasks = [b \in BearIds |-> 0]
    /\ pc = "idle"
    /\ next_bear = 1
    /\ running_tasks = <<>>
    /\ futures = <<>>
    /\ ready = <<>>
    /\ ntodo = 0
    /\ stopping = FALSE
    /\ loop_closed = FALSE
    /\ executor_shutdowns = 0
    /\ posting = {}
    /\ fired = <<>>
    /\ delivered = <<>>
    /\ last_trace = <<>>

GroupStep ==
    /\ g_pc = "loop"
    /\ g_pos <= Len(g_iterable)
    /\ LET element == g_iterable[g_pos]
           g == group_step(g_keys, g_elements, element, key(g_key, element))
       IN /\ g_keys' = g.keys
          /\ g_elements' = g.elements
    /\ g_pos' = g_pos + 1
    /\ UNCHANGED <<g_iterable, g_key, g_out, g_pc, sched_vars, cpu_vars>>

GroupReturn ==
    /\ g_pc = "loop"
    /\ g_pos > Len(g_iterable)
    /\ g_out' = zip(g_keys, g_elements)
    /\ g_pc' = "done"
    /\ UNCHANGED <<g_iterable, g_key, g_pos, g_keys, g_elements, sched_vars, cpu_vars>>

(* ---- get_cpu_count ---- *)
\* multiprocessing.cpu_count() on a platform: the number of cores, at least
\* one, or NotImplementedError where the platform cannot tell
Platforms ==
    {[available |-> FALSE, n |-> 0]}
        \cup {[available |-> TRUE, n |-> n] : n \in 1..MaxCpus}

cpu_count(platform) ==
    IF platform.available
    THEN [raised |-> FALSE, value |-> platform.n]
    ELSE [raised |-> TRUE, value |-> 0]

\* get_cpu_count without its except clause
get_cpu_count_no_except(platform) == cpu_count(platform)

get_cpu_count(platform) ==
    IF cpu_count(platform).raised
    THEN [raised |-> FALSE, value |-> 1]
    ELSE cpu_count(platform)

InitCpuIdle ==
    /\ c_platform = [available |-> FALSE, n |-> 0]
    /\ c_result = [raised |-> FALSE, value |-> 0]
    /\ c_pc = "idle"

InitCpu ==
    /\ c_platform \in Platforms
    /\ c_result = [raised |-> FALSE, value |-> 0]
    /\ c_pc = "call"

GetCpuCount ==
    /\ c_pc = "call"
    /\ c_result' = get_cpu_count(c_platform)
    /\ c_pc' = "done"
    /\ UNCHANGED <<c_platform, sched_vars, group_vars>>

(* ---- specifications ---- *)
Init == InitSched /\ InitGroupIdle /\ InitCpuIdle

Next == ControlThread \/ WorkerCompletes \/ WorkerPosts

Spec == Init /\ [][Next]_vars

\* The loop thread always takes its next step, every submitted task is
\* eventually finished by a worker, and the executor's thread goes on.
FairSpec ==
    /\ Spec
    /\ WF_vars(ControlThread)
    /\ WF_vars(WorkerCompletes)
    /\ WF_vars(WorkerPosts)

NextGroup == GroupStep \/ GroupReturn

GroupInit ==
    /\ InitSchedIdle
    /\ InitGroup
    /\ InitCpuIdle

CpuInit ==
    /\ InitSchedIdle
    /\ InitGroupIdle
    /\ InitCpu

CpuSpec == CpuInit /\ [][GetCpuCount]_vars

GroupSpec == GroupInit /\ [][NextGroup]_vars

(* ---- properties ---- *)
Handles == DOMAIN futures

RunReturned == pc = "returned"

\* the step in which run() returns
RunReturns == pc # "returned" /\ pc' = "returned"

\* the task finished with a list of results
Succeeded(h) == futures[h].done /\ ~futures[h].exc

\* result_callback was invoked once with each result of the task, in order
AllDelivered(h) == delivered[h] = [j \in 1..futures[h].n |-> j]

HasEvent(trace, kind) == \E j \in 1..Len(trace) : trace[j][1] = kind

\* C1: run() returns only when every submitted task was handled by
\* finish_task, and then the registry is empty, whatever the order of bears
\* with and without tasks.
RunReturnsOnlyWhenAllHandled ==
    RunReturned =>
        /\ DOMAIN running_tasks = {}
        /\ \A h \in Handles : fired[h] >= 1

\* a submission raised: the exception left run() before its try statement, so
\* the loop was not closed
SubmissionRaised == pc = "raised" /\ ~loop_closed

\* C2: for a non-empty list of bears, run() eventually returns unless a
\* submission raised, whatever tasks and callback invocations fail (every
\* submitted task is eventually finished).
RunTerminates ==
    (bears # <<>>) => <>(RunReturned \/ SubmissionRaised)

\* C3: at the moment run() returns, result_callback has been invoked exactly
\* once with each result of every task that finished with results, in the
\* task's order, and never for a task that failed or returned nothing.
ResultsAllForwarded ==
    [][RunReturns =>
        \A h \in Handles :
            /\ Succeeded(h) => AllDelivered(h)
            /\ (futures[h].exc \/ futures[h].n = 0) => delivered[h] = <<>>]_vars

\* finish_task of a failed task ends the loop with the task's exception
TaskFailureEndsRun ==
    /\ pc = "dispatch"
    /\ pc' = "raised"
    /\ futures[Head(ready)[2]].exc

\* C4: no failure of a task ends the loop, and at the moment run() returns
\* after a task has failed, the failed task has contributed no result, and
\* every other task was handled and its results were forwarded.
TaskFailureIsolated ==
    [][/\ ~TaskFailureEndsRun
       /\ RunReturns =>
              \A h \in Handles :
                  futures[h].exc =>
                      /\ delivered[h] = <<>>
                      /\ \A g \in Handles \ {h} :
                             /\ fired[g] = 1
                             /\ Succeeded(g) => AllDelivered(g)]_vars

\* result_callback raised in the finish_task of the trace: the failure was
\* logged, or it left finish_task after a call of result_callback
CallbackRaised(trace) ==
    \/ HasEvent(trace, "callback_error")
    \/ /\ HasEvent(trace, "result_callback")
       /\ \E cls \in ExceptionClasses : HasEvent(trace, cls)

\* C5: a finish_task in which result_callback raised has still invoked it
\* with every result of the task in order, the failure has left neither
\* finish_task nor the loop, and when run() returns after it the tasks
\* finishing later were handled and their results forwarded.
CallbackFailureIsolated ==
    CallbackRaised(last_trace) =>
        /\ \E n \in 1..MaxResults :
               CallbackCalls(last_trace) = [j \in 1..n |-> j]
        /\ \A cls \in ExceptionClasses : ~HasEvent(last_trace, cls)
        /\ pc # "raised"
        /\ RunReturned =>
               \A g \in Handles :
                   /\ fired[g] = 1
                   /\ Succeeded(g) => AllDelivered(g)

\* positions of the list that schedule_bears has gone through
Scheduled == 1..(next_bear - 1)

HandlesOf(p) == {h \in Handles : h[1] = p}

\* C6: finish_task fires exactly once for each of the k tasks of a bear
\* before run() returns; the bear's entry stays in the registry while one of
\* its tasks is not handled, and is removed once all are (at once if k = 0).
EntryRemovedAfterLastTask ==
    /\ RunReturned => \A h \in Handles : fired[h] = 1
    /\ \A p \in Scheduled :
           (\E h \in HandlesOf(p) : fired[h] = 0)
               => bears[p] \in DOMAIN running_tasks

\* C7: the tasks of both occurrences of a bear that is in the list twice are
\* tracked until they are handled, no finish_task fails on the registry, and
\* run() returns only when the tasks of both occurrences were handled and
\* their results forwarded.
DuplicateBearsIndependent ==
    \A p, q \in Scheduled :
        (p < q /\ bears[p] = bears[q]) =>
            /\ \A h \in HandlesOf(p) \cup HandlesOf(q) :
                   /\ fired[h] = 0 =>
                          /\ bears[p] \in DOMAIN running_tasks
                          /\ h \in running_tasks[bears[p]]
                   /\ RunReturned =>
                          /\ fired[h] = 1
                          /\ Succeeded(h) => AllDelivered(h)
            /\ ~HasEvent(last_trace, "KeyError")

\* C8: when run() is left, by return or by an exception of schedule_bears, the
\* executor has been shut down exactly once.
PoolReleasedOnce ==
    pc \in {"returned", "raised"} => executor_shutdowns = 1

\* C9: run() of an empty list never waits: it is not blocked in the loop with
\* nothing to run.
EmptyRunReturns ==
    (bears = <<>>) => (RunReturned \/ ENABLED ControlThread)

\* the key of an element of the input of group
KeyAt(j) == key(g_key, g_iterable[j])

\* the position of the first element of the input with key k
FirstPos(k) ==
    CHOOSE j \in 1..Len(g_iterable) :
        KeyAt(j) = k /\ \A m \in 1..(j - 1) : KeyAt(m) # k

\* C10: group returns one pair per key of the input, in the order of the
\* keys' first occurrences, each with exactly the elements of that key in
\* their input order.
GroupOrdered ==
    g_pc = "done" =>
        /\ {g_out[a][1] : a \in 1..Len(g_out)}
               = {KeyAt(j) : j \in 1..Len(g_iterable)}
        /\ \A a, b \in 1..Len(g_out) :
               a < b => FirstPos(g_out[a][1]) < FirstPos(g_out[b][1])
        /\ \A a \in 1..Len(g_out) :
               g_out[a][2] = SelectSeq(g_iterable,
                                       LAMBDA e : key(g_key, e) = g_out[a][1])

\* group has returned for an input whose groups are interleaved and hold
\* different elements, as group([1, 2, 3, 1], key = parity)
GroupOrderedWitness ==
    /\ g_pc = "done"
    /\ Len(g_out) = 2
    /\ \E a \in 1..Len(g_out) :
           /\ Len(g_out[a][2]) >= 3
           /\ g_out[a][2][1] # g_out[a][2][2]
    /\ KeyAt(1) # KeyAt(2)
    /\ KeyAt(1) = KeyAt(3)

\* C11: get_cpu_count never raises and returns at least 1: the number of
\* cores the platform reports, and 1 where it cannot report one.
CpuCountAtLeastOne ==
    c_pc = "done" =>
        /\ ~c_result.raised
        /\ c_result.value >= 1
        /\ c_platform.available => c_result.value = c_platform.n
        /\ ~c_platform.available => c_result.value = 1

\* get_cpu_count has returned on a platform that cannot report its cores
CpuCountWitness ==
    /\ c_pc = "done"
    /\ ~c_platform.available
    /\ c_result.value = 1

\* C12: once event_loop.stop() has been called, no further task is submitted
\* to the executor.
NoSubmissionAfterStop ==
    [][stopping => DOMAIN futures' = DOMAIN futures]_vars

\* C13: finish_task runs for a task only after the bear's handles have been
\* recorded, and it never finds the bear or the handle missing from the
\* registry.
HandlerFindsItsHandle ==
    /\ \A h \in Handles : fired[h] > 0 => h[1] < next_bear
    /\ ~HasEvent(last_trace, "KeyError")

\* a finish_task ran, of which task
Fires(h) == h \in DOMAIN fired /\ fired'[h] = fired[h] + 1

\* the step changes what the handlers and the scheduler own
RegistryStep ==
    \/ running_tasks' # running_tasks
    \/ stopping' /\ ~stopping
    \/ last_trace' # last_trace
    \/ \E h \in DOMAIN fired : fired'[h] # fired[h] \/ delivered'[h] # delivered[h]

\* a worker finishes a task in the step
WorkerStep == \E h \in Handles : futures'[h].done /\ ~futures[h].done

\* C14: the handlers run one at a time on the loop's thread: a step in which
\* a worker finishes a task touches neither the registry nor the callback,
\* and a step that runs finish_task runs it for the one callback at the head
\* of the loop's queue and for no other task.
HandledOneAtATime ==
    [][/\ WorkerStep => ~RegistryStep
       /\ \A h \in DOMAIN fired :
              Fires(h) =>
                  /\ pc = "dispatch"
                  /\ ntodo > 0
                  /\ Head(ready) = <<"finish_task", h>>
                  /\ ready' \in {Tail(ready), <<>>}
                  /\ \A g \in DOMAIN fired \ {h} :
                         fired'[g] = fired[g] /\ delivered'[g] = delivered[g]]_vars

\* a task was handled while another finished task was waiting for its handler
HandledOneAtATimeWitness ==
    /\ pc = "dispatch"
    /\ \E h, g \in Handles :
           /\ h # g
           /\ fired[h] = 1
           /\ fired[g] = 0
           /\ ntodo > 0
           /\ Head(ready) = <<"finish_task", g>>

\* the tasks of a bear that finish_task has not handled
Unhandled(b) == {h \in Handles : BearOf(h) = b /\ fired[h] = 0}

\* C15: once scheduling is done, and between handler invocations, the keys of
\* the registry are the bears with an unhandled task, each with exactly the
\* set of its unhandled tasks.
RegistryMatchesUnhandled ==
    pc \in {"select", "dispatch", "returned"} =>
        \A b \in BearIds :
            /\ b \in DOMAIN running_tasks <=> Unhandled(b) # {}
            /\ b \in DOMAIN running_tasks => running_tasks[b] = Unhandled(b)

\* the place of the first event of a kind in a trace, 0 if there is none
FirstEvent(trace, kind) ==
    IF HasEvent(trace, kind)
    THEN CHOOSE j \in 1..Len(trace) :
             /\ trace[j][1] = kind
             /\ \A m \in 1..(j - 1) : trace[m][1] # kind
    ELSE 0

\* C16: every finish_task removes the handle and calls cleanup_bear before it
\* forwards a result, for failed and successful tasks; the one that stops the
\* loop does so before forwarding, and still forwards all its results.
CleanupBeforeForwarding ==
    [][\A h \in DOMAIN fired :
           Fires(h) =>
               /\ HasEvent(last_trace', "remove")
               /\ HasEvent(last_trace', "cleanup_bear")
               /\ FirstEvent(last_trace', "remove")
                      < FirstEvent(last_trace', "cleanup_bear")
               /\ \A j \in 1..Len(last_trace') :
                      last_trace'[j][1] = "result_callback" =>
                          /\ FirstEvent(last_trace', "cleanup_bear") < j
                          /\ FirstEvent(last_trace', "stop") < j
               /\ Succeeded(h) =>
                      delivered'[h] = [j \in 1..futures[h].n |-> j]]_vars

\* the registry entry of a bear, empty when the bear is no key
Entry(rt, b) == IF b \in DOMAIN rt THEN rt[b] ELSE {}

\* C17: finish_task for a task of a bear removes exactly that task from the
\* bear's handle set and leaves the handle sets of all other bears as they
\* were.
HandlerChangesOnlyItsBear ==
    [][\A h \in DOMAIN fired :
           Fires(h) =>
               /\ h \in Entry(running_tasks, BearOf(h))
               /\ Entry(running_tasks', BearOf(h))
                      = Entry(running_tasks, BearOf(h)) \ {h}
               /\ \A b \in BearIds \ {BearOf(h)} :
                      /\ b \in DOMAIN running_tasks' <=> b \in DOMAIN running_tasks
                      /\ Entry(running_tasks', b) = Entry(running_tasks, b)]_vars

\* how often the value v occurs in a sequence
Count(seq, v) == Cardinality({j \in 1..Len(seq) : seq[j] = v})

\* the sum of f(a) over the groups 1..n of the output
SumGroups(f(_), n) ==
    LET RECURSIVE Sum(_)
        Sum(a) == IF a = 0 THEN 0 ELSE f(a) + Sum(a - 1)
    IN Sum(n)

\* C18: the output of group is a partition of the input: the keys are
\* pairwise unequal, no group is empty, every element lies in the group of
\* its key and in no other, as often as in the input, and the group sizes sum
\* to the length of the input.
GroupPartitions ==
    g_pc = "done" =>
        /\ \A a, b \in 1..Len(g_out) : a # b => g_out[a][1] # g_out[b][1]
        /\ \A a \in 1..Len(g_out) :
               /\ g_out[a][2] # <<>>
               /\ \A j \in 1..Len(g_out[a][2]) :
                      key(g_key, g_out[a][2][j]) = g_out[a][1]
        /\ \A v \in 1..MaxElem :
               SumGroups(LAMBDA a : Count(g_out[a][2], v), Len(g_out))
                   = Count(g_iterable, v)
        /\ SumGroups(LAMBDA a : Len(g_out[a][2]), Len(g_out)) = Len(g_iterable)

\* group has returned for an input in which a key comes back after another
\* key and an element occurs twice, as group([1, 2, 1], key = identity)
GroupPartitionsWitness ==
    /\ g_pc = "done"
    /\ Len(g_iterable) >= 3
    /\ KeyAt(1) # KeyAt(2)
    /\ KeyAt(1) = KeyAt(3)
    /\ g_iterable[1] = g_iterable[3]
    /\ Len(g_out) < Len(g_iterable)

====
